---- MODULE Spec2Model ----
(***************************************************************************)
(* A model of update_patrons.py: the credential resolver (load_config),    *)
(* the paginated fetch (get_patrons), the tier classification              *)
(* (categorize_patrons) and the emitters (write_csv, the JSON dump of      *)
(* main).                                                                  *)
(*                                                                         *)
(* Python values are represented as follows.                               *)
(*   str            a TLA+ string for opaque text (tokens, ids); a         *)
(*                  sequence of character codes for display names, which   *)
(*                  the code lower-cases and compares; a record            *)
(*                  [form, t] for timestamp text, which the code parses    *)
(*                  and formats (see the Timestamp section)                *)
(*   None           the value None_ (no input string equals it)            *)
(*   dict           a function (record) whose DOMAIN is the set of keys    *)
(*   list           a sequence                                             *)
(*   datetime       [tz, t]: t in ticks, tz "naive" or "utc"               *)
(***************************************************************************)
EXTENDS Integers, Sequences, FiniteSets, TLC

VARIABLES
    pc,                     \* position in main() / the called function
    environ,                \* os.environ (the two variables read)
    config_file,            \* what '.patreon.env' holds on disk
    PATREON_ACCESS_TOKEN,   \* module global
    CAMPAIGN_ID,            \* module global
    pages,                  \* the remote API: response i answers page i
    url,                    \* get_patrons: local 'url' (page index, 0 = None)
    request_log,            \* the requests issued so far, in order
    all_patrons,            \* get_patrons: local 'all_patrons'
    patrons,                \* main: 'patrons' / the list a function is given
    now,                    \* categorize_patrons: local 'now'
    categories,             \* main: 'categories'
    csv_next,               \* main: position of the loop over files.items()
    files,                  \* the _data directory: file name -> content
    raised                  \* the exception that left main(), "" if none

vars == <<pc, environ, config_file, PATREON_ACCESS_TOKEN, CAMPAIGN_ID, pages,
          url, request_log, all_patrons, patrons, now, categories, csv_next,
          files, raised>>

----------------------------------------------------------------------------
(* Bounds of the model.                                                    *)

MaxPages == 2          \* longest page chain the API serves
MaxPatrons == 2        \* longest patron list handed to the emit stage
TicksPerDay == 2       \* clock resolution: ticks in one day
Today == 1000          \* the day (in days) on which the run happens

----------------------------------------------------------------------------
(* Python helpers.                                                         *)

None_ == "<None>"

\* dict.get(k, default)
Get(d, k, default) == IF k \in DOMAIN d THEN d[k] ELSE default

\* 'not x' for a str-or-None value
Falsy(x) == x = "" \/ x = None_

EmptyDict == <<>>

Range(s) == {s[i] : i \in DOMAIN s}

\* sequences over S of length 0..n
SeqUpTo(S, n) == UNION {[1..k -> S] : k \in 0..n}

----------------------------------------------------------------------------
(* Display names: sequences of character codes.                            *)

\* str.lower() on one character (ASCII letters)
LowerChar(c) == IF c >= 65 /\ c <= 90 THEN c + 32 ELSE c

\* str.lower()
Lower(s) == [i \in DOMAIN s |-> LowerChar(s[i])]

\* str.__le__: lexicographic order by code point
RECURSIVE StrLeq(_, _)
StrLeq(a, b) ==
    IF a = <<>> THEN TRUE
    ELSE IF b = <<>> THEN FALSE
    ELSE IF Head(a) < Head(b) THEN TRUE
    ELSE IF Head(a) > Head(b) THEN FALSE
    ELSE StrLeq(Tail(a), Tail(b))

Anonymous == <<65, 110, 111, 110, 121, 109, 111, 117, 115>>   \* "Anonymous"
Name_al == <<97, 108>>                  \* "al"
Name_Al == <<65, 108>>                  \* "Al"
Name_Bo == <<66, 111>>                  \* "Bo"
Name_bo == <<98, 111>>                  \* "bo"
Name_Zed == <<90, 101, 100>>            \* "Zed"

----------------------------------------------------------------------------
(* Timestamp text and datetime values.                                     *)
(*                                                                         *)
(* A timestamp string is [form, t]: form names the shape of the text and   *)
(* t is the instant it spells, in ticks (TicksPerDay ticks per day).       *)
(*   "empty"            ''                                                 *)
(*   "date"             'YYYY-MM-DD'              (t is a midnight)        *)
(*   "datetime"         'YYYY-MM-DDTHH:MM:SS'     (no offset)              *)
(*   "datetime_z"       'YYYY-MM-DDTHH:MM:SSZ'                             *)
(*   "datetime_offset"  'YYYY-MM-DDTHH:MM:SS+00:00'                        *)
(*   "text_T"           text holding a 'T' that is no ISO timestamp        *)
(*   "text"             text without 'T' that is no date ('15/03/2024')    *)
(***************************************************************************)

Str(form, t) == [form |-> form, t |-> t]
EmptyStr == Str("empty", 0)

Midnight(t) == (t \div TicksPerDay) * TicksPerDay

\* 'T' in s
ContainsT(s) == s.form \in {"datetime", "datetime_z", "datetime_offset", "text_T"}

\* s.replace('Z', '+00:00')
ReplaceZ(s) == IF s.form = "datetime_z" THEN Str("datetime_offset", s.t) ELSE s

\* datetime.fromisoformat(s): a naive datetime without offset, an aware one
\* with an offset, ValueError otherwise
fromisoformat(s) ==
    CASE s.form = "datetime"        -> [exc |-> "", tz |-> "naive", t |-> s.t]
      [] s.form = "datetime_offset" -> [exc |-> "", tz |-> "utc", t |-> s.t]
      [] OTHER                      -> [exc |-> "ValueError", tz |-> "", t |-> 0]

\* datetime.strptime(s, '%Y-%m-%d')
strptime(s) ==
    IF s.form = "date"
    THEN [exc |-> "", tz |-> "naive", t |-> s.t]
    ELSE [exc |-> "ValueError", tz |-> "", t |-> 0]

\* dt.strftime('%Y-%m-%d')
strftime(dt) == Str("date", Midnight(dt.t))

\* dt + timedelta(days=n)
AddDays(dt, n) == [dt EXCEPT !.t = dt.t + n * TicksPerDay]

----------------------------------------------------------------------------
(* load_config: environment first, '.patreon.env' second.                  *)
(*                                                                         *)
(* config_file is [exists, readable, values]: values is the dict that      *)
(* dotenv_values() builds from the lines it can parse. A line 'KEY=' binds *)
(* KEY to '', a line 'KEY' without '=' binds it to None, a line dotenv     *)
(* cannot parse binds nothing. Opening an unreadable file raises.          *)

ENV_TOKEN == "PATREON_ACCESS_TOKEN"
ENV_CAMPAIGN == "PATREON_CAMPAIGN_ID"

\* dotenv_values(config_file)
dotenv_values(file) ==
    IF file.readable
    THEN [exc |-> "", config |-> file.values]
    ELSE [exc |-> "OSError", config |-> EmptyDict]

\* the fallback branch, lines 35-43
load_config_fallback(token, campaign_id, file) ==
    IF ~file.exists THEN <<token, campaign_id>>
    ELSE LET r == dotenv_values(file)
         IN  IF r.exc # "" THEN <<token, campaign_id>>      \* except Exception
             ELSE <<IF Falsy(token)
                    THEN Get(r.config, ENV_TOKEN, "") ELSE token,
                    IF Falsy(campaign_id)
                    THEN Get(r.config, ENV_CAMPAIGN, "") ELSE campaign_id>>

load_config(env, file) ==
    LET token == Get(env, ENV_TOKEN, "")
        campaign_id == Get(env, ENV_CAMPAIGN, "")
    IN  IF Falsy(token) \/ Falsy(campaign_id)
        THEN load_config_fallback(token, campaign_id, file)
        ELSE <<token, campaign_id>>

\* dicts over the two keys, each key absent or bound to a value of Vals
DictsOver(Vals) ==
    UNION {[K -> Vals] : K \in SUBSET {ENV_TOKEN, ENV_CAMPAIGN}}

EnvironSet == DictsOver({"", "env_value"})

MissingFile == [exists |-> FALSE, readable |-> FALSE, values |-> EmptyDict]
UnreadableFile == [exists |-> TRUE, readable |-> FALSE, values |-> EmptyDict]
ParsedFile(d) == [exists |-> TRUE, readable |-> TRUE, values |-> d]

ConfigFileSet ==
    {MissingFile, UnreadableFile}
    \cup {ParsedFile(d) : d \in DictsOver({"", None_, "file_value"})}

----------------------------------------------------------------------------
(* The remote API and get_patrons.                                         *)
(*                                                                         *)
(* pages[i] is what the service answers to the request for page i:         *)
(* [outcome, body]. outcome "ok" delivers the JSON object body; "timeout"  *)
(* is requests.get raising Timeout, "http_error" is raise_for_status()     *)
(* raising HTTPError, "invalid_json" is response.json() raising            *)
(* requests' JSONDecodeError (requests 2.27 and later): all three are      *)
(* RequestException. A decoded body that lacks a key the code subscripts   *)
(* raises KeyError instead.                                                *)

ACTIVE == "active_patron"

\* one member of 'data'
Member(id, status, user_id, more) ==
    [id |-> id,
     attributes |-> [k \in {"patron_status"} \cup DOMAIN more |->
                        IF k = "patron_status" THEN status ELSE more[k]],
     relationships |-> [user |-> [data |-> [id |-> user_id]]]]

User(id, full_name) ==
    [id |-> id, type |-> "user", attributes |-> [full_name |-> full_name]]

\* the keys the code subscripts in one included record (line 88)
IncludedKeyError(u) ==
    \/ "type" \notin DOMAIN u
    \/ u.type = "user" /\ "id" \notin DOMAIN u

\* the keys the code subscripts in one member (lines 91, 92, 96)
MemberKeyError(m) ==
    \/ "attributes" \notin DOMAIN m
    \/ "patron_status" \notin DOMAIN m.attributes
    \/ /\ m.attributes.patron_status = ACTIVE
       /\ \/ "relationships" \notin DOMAIN m
          \/ "id" \notin DOMAIN m

\* included_users.get(user_id, {}): the last included user record of that id
included_users_get(included, user_id) ==
    LET hits == {i \in DOMAIN included :
                    included[i].type = "user" /\ included[i].id = user_id}
    IN  IF hits = {} THEN EmptyDict
        ELSE included[CHOOSE i \in hits : \A j \in hits : j <= i]

\* variant of IsActive: the status filter dropped
IsActiveAny(m) == TRUE

\* line 91
IsActive(m) == m.attributes.patron_status = ACTIVE

\* lines 92-100
patron_info(m, included) ==
    LET user == included_users_get(included, m.relationships.user.data.id)
    IN  [member_id |-> m.id,
         displayed_name |->
             Get(Get(user, "attributes", EmptyDict), "full_name", Anonymous),
         last_payment_timestamp |->
             Get(m.attributes, "last_charge_date", EmptyStr),
         pledge_amount_cents |->
             Get(m.attributes, "currently_entitled_amount_cents", 0)]

\* lines 88-102 on one decoded page: the patrons it adds, or the exception
RECURSIVE page_patrons(_, _)
page_patrons(data, included) ==
    IF data = <<>> THEN <<>>
    ELSE (IF IsActive(Head(data))
          THEN <<patron_info(Head(data), included)>> ELSE <<>>)
         \o page_patrons(Tail(data), included)

process_page(body) ==
    LET included == Get(body, "included", <<>>)
        data == Get(body, "data", <<>>)
    IN  IF \/ \E i \in DOMAIN included : IncludedKeyError(included[i])
           \/ \E i \in DOMAIN data : MemberKeyError(data[i])
        THEN [exc |-> "KeyError", found |-> <<>>]
        ELSE [exc |-> "", found |-> page_patrons(data, included)]

\* line 105: data.get('links', {}).get('next')
NextUrl(body) == Get(Get(body, "links", EmptyDict), "next", 0)

----------------------------------------------------------------------------
(* categorize_patrons.                                                     *)

CATEGORIES == <<"one_month", "six_months", "one_year">>

\* variant of tier_of: thresholds in place of the exact amounts
tier_of_lenient(pledge_cents) ==
    IF pledge_cents >= 1500
    THEN [duration_days |-> 365, category |-> "one_year"]
    ELSE IF pledge_cents >= 500
    THEN [duration_days |-> 180, category |-> "six_months"]
    ELSE [duration_days |-> 30, category |-> "one_month"]

\* lines 128-139; category "" is the 'else: continue' branch
tier_of(pledge_cents) ==
    CASE pledge_cents = 300  -> [duration_days |-> 30, category |-> "one_month"]
      [] pledge_cents = 500  -> [duration_days |-> 180, category |-> "six_months"]
      [] pledge_cents = 1500 -> [duration_days |-> 365, category |-> "one_year"]
      [] OTHER               -> [duration_days |-> 0, category |-> ""]

\* lines 147-150
parse_last_charge(last_charge) ==
    IF ContainsT(last_charge)
    THEN fromisoformat(ReplaceZ(last_charge))
    ELSE strptime(last_charge)

\* variant of later: >= in place of >
later_or_equal(a, b) ==
    IF a.tz # b.tz
    THEN [exc |-> "TypeError", value |-> FALSE]
    ELSE [exc |-> "", value |-> a.t >= b.t]

\* datetime.__gt__ (line 153): an aware and a naive datetime do not compare
later(a, b) ==
    IF a.tz # b.tz
    THEN [exc |-> "TypeError", value |-> FALSE]
    ELSE [exc |-> "", value |-> a.t > b.t]

\* one pass of the loop body, lines 126-157: the category the patron is
\* appended to, "" when it is skipped
patron_category(patron, now_) ==
    LET tier == tier_of(Get(patron, "pledge_amount_cents", 0))
        last_charge == Get(patron, "last_payment_timestamp", EmptyStr)
        charge_date == parse_last_charge(last_charge)
        cmp == later(AddDays(charge_date, tier.duration_days), now_)
    IN  IF tier.category = "" THEN ""
        ELSE IF last_charge = EmptyStr THEN ""           \* not last_charge
        ELSE IF charge_date.exc # "" THEN ""            \* except ValueError
        ELSE IF cmp.exc # "" THEN ""                    \* except TypeError
        ELSE IF cmp.value THEN tier.category ELSE ""

\* variant of sort_key: the name as it is, not lower-cased
sort_key_raw(p) == p.displayed_name

\* line 161: key=lambda p: p['displayed_name'].lower()
sort_key(p) == Lower(p.displayed_name)

\* list.sort(key=...) is stable: an element goes after the ones whose key
\* is less than or equal to its own
RECURSIVE sort_insert(_, _)
sort_insert(sorted, p) ==
    IF sorted = <<>> THEN <<p>>
    ELSE IF StrLeq(sort_key(Head(sorted)), sort_key(p))
    THEN <<Head(sorted)>> \o sort_insert(Tail(sorted), p)
    ELSE <<p>> \o sorted

RECURSIVE list_sort(_)
list_sort(list) ==
    IF list = <<>> THEN <<>>
    ELSE sort_insert(list_sort(SubSeq(list, 1, Len(list) - 1)), list[Len(list)])

\* lines 119-157: the buckets before sorting, in order of appending
appended(patron_list, now_, category) ==
    SelectSeq(patron_list, LAMBDA p : patron_category(p, now_) = category)

categorize_patrons(patron_list, now_) ==
    [c \in Range(CATEGORIES) |-> list_sort(appended(patron_list, now_, c))]

NoCategories == [c \in Range(CATEGORIES) |-> <<>>]

\* datetime.now(): a naive local time on the day of the run
NowSet == {[tz |-> "naive", t |-> Today * TicksPerDay + k] : k \in 0..(TicksPerDay - 1)}
NoTime == [tz |-> "naive", t |-> 0]

----------------------------------------------------------------------------
(* write_csv and the JSON dump of main.                                    *)

fieldnames == <<"member_id", "displayed_name", "last_payment_timestamp">>

CsvPath ==
    [c \in Range(CATEGORIES) |->
        CASE c = "one_month"  -> "one_month_mentions.csv"
          [] c = "six_months" -> "six_months_mentions.csv"
          [] c = "one_year"   -> "one_year_mentions.csv"]
JsonPath == "patrons.json"
FileNames == {CsvPath[c] : c \in Range(CATEGORIES)} \cup {JsonPath}

tier_names ==
    [c \in Range(CATEGORIES) |->
        CASE c = "one_month"  -> "NOTUS"
          [] c = "six_months" -> "ZEPHYRUS"
          [] c = "one_year"   -> "BOREAS"]

\* variant of csv_timestamp: the text written as it is
csv_timestamp_raw(timestamp) == timestamp

\* lines 177-184
csv_timestamp(timestamp) ==
    IF ContainsT(timestamp)
    THEN LET dt == fromisoformat(ReplaceZ(timestamp))
         IN  IF dt.exc # "" THEN timestamp ELSE strftime(dt)
    ELSE timestamp

\* lines 186-190
csv_row(patron) ==
    [member_id |-> patron.member_id,
     displayed_name |-> patron.displayed_name,
     last_payment_timestamp |->
         csv_timestamp(Get(patron, "last_payment_timestamp", EmptyStr))]

Written(header, rows) == [exists |-> TRUE, header |-> header, rows |-> rows]
Absent == [exists |-> FALSE, header |-> <<>>, rows |-> <<>>]

\* write_csv(filename, patrons): the directory after the call
write_csv(fs, filename, patron_list) ==
    [fs EXCEPT ![filename] =
        Written(fieldnames, [i \in DOMAIN patron_list |-> csv_row(patron_list[i])])]

\* lines 248-253
json_entry(patron, category) ==
    [member_id |-> patron.member_id,
     displayed_name |-> patron.displayed_name,
     tier |-> tier_names[category],
     last_payment_timestamp |-> patron.last_payment_timestamp]

\* lines 245-253
all_patrons_data(cats) ==
    LET entries(c) == [i \in DOMAIN cats[c] |-> json_entry(cats[c][i], c)]
    IN  entries("one_month") \o entries("six_months") \o entries("one_year")

\* json.dump(data, f)
write_json(fs, data) == [fs EXCEPT ![JsonPath] = Written(<<>>, data)]

----------------------------------------------------------------------------
(* Inputs.                                                                 *)

\* timestamp text for an instant 'days' days before the day of the run,
\* 'ticks' ticks after midnight
Ago(form, days, ticks) == Str(form, (Today - days) * TicksPerDay + ticks)

Patron(id, name, ts, cents) ==
    [member_id |-> id, displayed_name |-> name,
     last_payment_timestamp |-> ts, pledge_amount_cents |-> cents]

\* the patron records handed to the emit stage
PatronSet ==
    { Patron("e01", Name_Bo,   Ago("date", 29, 0),           300),
      Patron("e02", Name_Zed,  Ago("date", 30, 0),           300),
      Patron("e03", Name_Al,   Ago("date", 31, 0),           300),
      Patron("e04", Name_bo,   Ago("datetime", 30, 1),       300),
      Patron("e05", Name_al,   Ago("datetime", 29, 1),       300),
      Patron("e06", Name_Zed,  Ago("date", 364, 0),          1500),
      Patron("e07", Name_al,   Ago("date", 366, 0),          1500),
      Patron("e08", Name_Bo,   Ago("date", 179, 0),          500),
      Patron("e09", Anonymous, Ago("datetime_z", 10, 1),     300),
      Patron("e10", Name_Bo,   Ago("datetime_offset", 10, 1), 500),
      Patron("e11", Name_Zed,  Str("text_T", 0),             500),
      Patron("e12", Name_al,   Str("text", 0),               1500),
      Patron("e13", Name_Bo,   EmptyStr,                     500),
      Patron("e14", Name_al,   Ago("date", 10, 0),           700),
      Patron("e15", Name_Al,   Ago("date", 400, 0),          1500) }

\* lists without a repeated member_id (the API assigns it uniquely)
PatronLists ==
    {l \in SeqUpTo(PatronSet, MaxPatrons) :
        \A i, j \in DOMAIN l : i # j => l[i].member_id # l[j].member_id}

\* members and included records the API serves
m_notus == Member("m1", ACTIVE, "u1",
    [last_charge_date |-> Ago("date", 10, 0),
     currently_entitled_amount_cents |-> 300])
m_boreas_old == Member("m2", ACTIVE, "u2",
    [last_charge_date |-> Ago("date", 400, 0),
     currently_entitled_amount_cents |-> 1500])
m_datetime == Member("m3", ACTIVE, "u3",
    [last_charge_date |-> Ago("datetime", 10, 1),
     currently_entitled_amount_cents |-> 300])
m_declined == Member("m4", "declined_patron", "u1",
    [last_charge_date |-> Ago("date", 10, 0),
     currently_entitled_amount_cents |-> 500])
m_bare == Member("m5", ACTIVE, "u1", EmptyDict)
m_zulu == Member("m6", ACTIVE, "u4",
    [last_charge_date |-> Ago("datetime_z", 10, 1),
     currently_entitled_amount_cents |-> 500])
m_no_status == [id |-> "m7", attributes |-> EmptyDict,
                relationships |-> [user |-> [data |-> [id |-> "u1"]]]]

u1 == User("u1", Name_Bo)
u2 == User("u2", Name_al)
u3_campaign == [id |-> "u3", type |-> "campaign",
                attributes |-> [full_name |-> Name_Zed]]
u4_no_name == [id |-> "u4", type |-> "user"]

Ok(body) == [outcome |-> "ok", body |-> body]
Failed(outcome) == [outcome |-> outcome, body |-> EmptyDict]

\* what one page can answer, before its 'links' are set
PageSet ==
    { Ok([data |-> <<m_notus, m_declined>>, included |-> <<u1>>]),
      Ok([data |-> <<m_boreas_old, m_datetime>>,
          included |-> <<u2, u3_campaign>>]),
      Ok([data |-> <<m_bare, m_zulu>>, included |-> <<u4_no_name>>]),
      Ok([data |-> <<m_declined>>]),
      Ok([data |-> <<m_no_status>>, included |-> <<u1>>]),
      Failed("timeout"),
      Failed("http_error"),
      Failed("invalid_json") }

\* body with its 'links' object: page i of n links to page i + 1, the last
\* page has no 'next'
WithLinks(page, i, n) ==
    IF page.outcome # "ok" \/ i = n THEN page
    ELSE [page EXCEPT !.body =
            [k \in DOMAIN page.body \cup {"links"} |->
                IF k = "links" THEN [next |-> i + 1] ELSE page.body[k]]]

Chain(seq) == [i \in DOMAIN seq |-> WithLinks(seq[i], i, Len(seq))]

ChainSet == {Chain(seq) : seq \in SeqUpTo(PageSet, MaxPages) \ {<<>>}}

\* the _data directory before the run: empty, or left by an earlier run
NoFiles == [f \in FileNames |-> Absent]
StaleFiles ==
    [f \in FileNames |->
        IF f = JsonPath
        THEN Written(<<>>, <<json_entry(Patron("old", Name_Zed,
                                   Ago("date", 500, 0), 300), "one_month")>>)
        ELSE Written(fieldnames, <<csv_row(Patron("old", Name_Zed,
                                   Ago("date", 500, 0), 300))>>)]

----------------------------------------------------------------------------
(* main() and the functions it calls, as steps.                            *)

\* line 198
main_load_config ==
    /\ pc = "main"
    /\ LET r == load_config(environ, config_file)
       IN  /\ PATREON_ACCESS_TOKEN' = r[1]
           /\ CAMPAIGN_ID' = r[2]
    /\ pc' = "get_patrons"
    /\ UNCHANGED <<environ, config_file, pages, url, request_log, all_patrons,
                   patrons, now, categories, csv_next, files, raised>>

\* lines 54-76: the two credential checks, then the first url
get_patrons_begin ==
    /\ pc = "get_patrons"
    /\ IF Falsy(PATREON_ACCESS_TOKEN) \/ Falsy(CAMPAIGN_ID)
       THEN /\ patrons' = <<>>
            /\ pc' = "main_check"
            /\ UNCHANGED <<url, all_patrons>>
       ELSE /\ url' = 1
            /\ all_patrons' = <<>>
            /\ pc' = "fetch_loop"
            /\ UNCHANGED patrons
    /\ UNCHANGED <<environ, config_file, PATREON_ACCESS_TOKEN, CAMPAIGN_ID,
                   pages, request_log, now, categories, csv_next, files, raised>>

\* lines 79-106 and 111-113: one iteration of 'while url'
get_patrons_request ==
    /\ pc = "fetch_loop"
    /\ url # 0
    /\ request_log' = Append(request_log, url)
    /\ LET response == pages[url]
           r == process_page(response.body)
       IN  IF response.outcome # "ok"
           THEN \* except requests.exceptions.RequestException: return []
                /\ patrons' = <<>>
                /\ pc' = "main_check"
                /\ UNCHANGED <<url, all_patrons, raised>>
           ELSE IF r.exc # ""
           THEN \* no handler in get_patrons nor in main: the run ends here
                /\ raised' = r.exc
                /\ pc' = "crashed"
                /\ UNCHANGED <<url, all_patrons, patrons>>
           ELSE /\ all_patrons' = all_patrons \o r.found
                /\ url' = NextUrl(response.body)
                /\ UNCHANGED <<pc, patrons, raised>>
    /\ UNCHANGED <<environ, config_file, PATREON_ACCESS_TOKEN, CAMPAIGN_ID,
                   pages, now, categories, csv_next, files>>

\* lines 108-109
get_patrons_return ==
    /\ pc = "fetch_loop"
    /\ url = 0
    /\ patrons' = all_patrons
    /\ pc' = "main_check"
    /\ UNCHANGED <<environ, config_file, PATREON_ACCESS_TOKEN, CAMPAIGN_ID,
                   pages, url, request_log, all_patrons, now, categories,
                   csv_next, files, raised>>

\* lines 204-218
main_no_patrons ==
    /\ pc = "main_check"
    /\ patrons = <<>>
    /\ files' = write_json(files, <<>>)
    /\ pc' = "done"
    /\ UNCHANGED <<environ, config_file, PATREON_ACCESS_TOKEN, CAMPAIGN_ID,
                   pages, url, request_log, all_patrons, patrons, now,
                   categories, csv_next, raised>>

\* line 221
main_categorize ==
    /\ pc = "main_check"
    /\ patrons # <<>>
    /\ \E n \in NowSet :
          /\ now' = n
          /\ categories' = categorize_patrons(patrons, n)
    /\ csv_next' = 1
    /\ pc' = "write_csv"
    /\ UNCHANGED <<environ, config_file, PATREON_ACCESS_TOKEN, CAMPAIGN_ID,
                   pages, url, request_log, all_patrons, patrons, files,
                   raised>>

\* lines 234-237: one iteration of the loop over files.items()
main_write_csv ==
    /\ pc = "write_csv"
    /\ csv_next <= Len(CATEGORIES)
    /\ LET category == CATEGORIES[csv_next]
       IN  files' = write_csv(files, CsvPath[category], categories[category])
    /\ csv_next' = csv_next + 1
    /\ UNCHANGED <<pc, environ, config_file, PATREON_ACCESS_TOKEN,
                   CAMPAIGN_ID, pages, url, request_log, all_patrons, patrons,
                   now, categories, raised>>

\* lines 240-258
main_write_json ==
    /\ pc = "write_csv"
    /\ csv_next > Len(CATEGORIES)
    /\ files' = write_json(files, all_patrons_data(categories))
    /\ pc' = "done"
    /\ UNCHANGED <<environ, config_file, PATREON_ACCESS_TOKEN, CAMPAIGN_ID,
                   pages, url, request_log, all_patrons, patrons, now,
                   categories, csv_next, raised>>

\* write_csv called on its own with a list of patrons
write_csv_call ==
    /\ pc = "write_csv_call"
    /\ \E c \in Range(CATEGORIES) :
          files' = write_csv(files, CsvPath[c], patrons)
    /\ pc' = "done"
    /\ UNCHANGED <<environ, config_file, PATREON_ACCESS_TOKEN, CAMPAIGN_ID,
                   pages, url, request_log, all_patrons, patrons, now,
                   categories, csv_next, raised>>

----------------------------------------------------------------------------
(* Specifications.                                                         *)

\* what every run starts from, whatever the inputs
Fresh ==
    /\ PATREON_ACCESS_TOKEN = ""        \* line 18
    /\ CAMPAIGN_ID = ""                 \* line 19
    /\ url = 0
    /\ request_log = <<>>
    /\ all_patrons = <<>>
    /\ now = NoTime
    /\ categories = NoCategories
    /\ csv_next = 0
    /\ raised = ""

\* the credential sources of the whole-run specification
MainConfigs ==
    { <<[PATREON_ACCESS_TOKEN |-> "env_value",
         PATREON_CAMPAIGN_ID |-> "env_value"], MissingFile>>,
      <<EmptyDict,
        ParsedFile([PATREON_ACCESS_TOKEN |-> "file_value",
                    PATREON_CAMPAIGN_ID |-> "file_value"])>>,
      <<[PATREON_ACCESS_TOKEN |-> "env_value"],
        ParsedFile([PATREON_CAMPAIGN_ID |-> "file_value"])>>,
      <<EmptyDict, MissingFile>>,
      <<[PATREON_ACCESS_TOKEN |-> "env_value"], UnreadableFile>> }

\* a whole run of main()
Init ==
    /\ pc = "main"
    /\ \E c \in MainConfigs : environ = c[1] /\ config_file = c[2]
    /\ pages \in ChainSet
    /\ patrons = <<>>
    /\ files \in {NoFiles, StaleFiles}
    /\ Fresh

Next ==
    \/ main_load_config
    \/ get_patrons_begin
    \/ get_patrons_request
    \/ get_patrons_return
    \/ main_no_patrons
    \/ main_categorize
    \/ main_write_csv
    \/ main_write_json

Spec == Init /\ [][Next]_vars

\* load_config on every environment and configuration file
InitConfig ==
    /\ pc = "main"
    /\ environ \in EnvironSet
    /\ config_file \in ConfigFileSet
    /\ pages = <<>>
    /\ patrons = <<>>
    /\ files = NoFiles
    /\ Fresh

NextConfig == main_load_config

SpecConfig == InitConfig /\ [][NextConfig]_vars

\* main() from line 204 on, for every list get_patrons can return
InitEmit ==
    /\ pc = "main_check"
    /\ environ = EmptyDict
    /\ config_file = MissingFile
    /\ pages = <<>>
    /\ patrons \in PatronLists
    /\ files \in {NoFiles, StaleFiles}
    /\ Fresh

NextEmit ==
    \/ main_no_patrons
    \/ main_categorize
    \/ main_write_csv
    \/ main_write_json

SpecEmit == InitEmit /\ [][NextEmit]_vars

\* write_csv on every list of patron records
InitCsv ==
    /\ pc = "write_csv_call"
    /\ environ = EmptyDict
    /\ config_file = MissingFile
    /\ pages = <<>>
    /\ patrons \in PatronLists
    /\ files = NoFiles
    /\ Fresh

NextCsv == write_csv_call

SpecCsv == InitCsv /\ [][NextCsv]_vars

----------------------------------------------------------------------------
(* The claims.                                                             *)

\* the three tabular files and the buckets they are written from
CsvFiles == {CsvPath[c] : c \in Range(CATEGORIES)}

\* categorize_patrons has returned
Categorized == pc = "write_csv" \/ (pc = "done" /\ patrons # <<>>)

\* get_patrons has returned to main
Fetched == pc \in {"main_check", "write_csv", "done"}

InBucket(p, c) == \E i \in DOMAIN categories[c] : categories[c][i] = p
InSomeBucket(p) == \E c \in Range(CATEGORIES) : InBucket(p, c)

\* the tier table of the data model: cents -> tier, window in days
TableTier(cents) ==
    CASE cents = 300  -> "one_month"
      [] cents = 500  -> "six_months"
      [] cents = 1500 -> "one_year"
      [] OTHER        -> "none"
TableWindow(cents) ==
    CASE cents = 300  -> 30
      [] cents = 500  -> 180
      [] cents = 1500 -> 365
      [] OTHER        -> 0

\* the payment instant plus the window lies strictly after now
InWindow(p) ==
    p.last_payment_timestamp.t
        + TableWindow(p.pledge_amount_cents) * TicksPerDay > now.t

\* C1: a run of main() whose fetch yields no patron ends with the three
\* tabular files holding the header row only and patrons.json holding [].
C1_EmptyRunWritesAllFiles ==
    (pc = "done" /\ patrons = <<>>) =>
        /\ raised = ""
        /\ \A f \in CsvFiles : files[f] = Written(fieldnames, <<>>)
        /\ files[JsonPath] = Written(<<>>, <<>>)

\* the request for page k failed: timeout, non-2xx status, a body that is
\* no JSON, or a JSON payload without the keys of a member list
PageFailed(k) ==
    \/ pages[k].outcome \in {"timeout", "http_error", "invalid_json"}
    \/ pages[k].outcome = "ok" /\ process_page(pages[k].body).exc # ""

\* C2: when the request for some page fails, get_patrons returns the empty
\* list without raising and main goes on to its emit step.
C2_FailedPageYieldsEmptyList ==
    (\E i \in DOMAIN request_log : PageFailed(request_log[i])) =>
        /\ raised = ""
        /\ pc \in {"main_check", "done"}
        /\ patrons = <<>>

\* C3: a patron with a pledge of the table whose timestamp is a full ISO
\* timestamp ending in "Z", within the window, is in the bucket of its tier.
C3_ZuluTimestampIsBucketed ==
    Categorized =>
        \A i \in DOMAIN patrons :
            (/\ TableTier(patrons[i].pledge_amount_cents) # "none"
             /\ patrons[i].last_payment_timestamp.form = "datetime_z"
             /\ InWindow(patrons[i]))
            => InBucket(patrons[i], TableTier(patrons[i].pledge_amount_cents))

\* the timestamp texts the code reads as a local time without offset
LocalForm(p) == p.last_payment_timestamp.form \in {"date", "datetime"}

BareDate(ts) == Str("date", (ts.t \div TicksPerDay) * TicksPerDay)

\* C5: after a run, patrons.json holds exactly one entry per patron of the
\* three buckets and no other; the entry has the member id, the name, the
\* tier label of the bucket and the timestamp as a bare YYYY-MM-DD date.
C5_JsonListsBucketsNormalized ==
    pc = "done" =>
        LET rows == files[JsonPath].rows
        IN  /\ files[JsonPath].exists
            /\ \A c \in Range(CATEGORIES) : \A i \in DOMAIN categories[c] :
                  LET p == categories[c][i]
                      hits == {j \in DOMAIN rows : rows[j].member_id = p.member_id}
                  IN  /\ Cardinality(hits) = 1
                      /\ \A j \in hits :
                            /\ rows[j].displayed_name = p.displayed_name
                            /\ rows[j].tier = tier_names[c]
                            /\ rows[j].last_payment_timestamp
                                  = BareDate(p.last_payment_timestamp)
            /\ \A j \in DOMAIN rows :
                  \E c \in Range(CATEGORIES) : \E i \in DOMAIN categories[c] :
                      categories[c][i].member_id = rows[j].member_id

\* a patron the classification must leave out: pledge outside the table,
\* timestamp empty, or timestamp text that is neither a date nor ISO
Unclassifiable(p) ==
    \/ p.pledge_amount_cents \notin {300, 500, 1500}
    \/ p.last_payment_timestamp.form \in {"empty", "text", "text_T"}

\* the member ids a file lists
ListedIn(f) == {files[f].rows[j].member_id : j \in DOMAIN files[f].rows}

\* C6: a patron is in at most one bucket, and only in the bucket the table
\* gives its pledge; a patron with a pledge outside the table or an empty or
\* unparseable timestamp is in no bucket and in no output file, and the
\* patrons after it are still classified.
C6_OneBucketByPledge ==
    \A i \in DOMAIN patrons :
        LET p == patrons[i]
        IN  /\ \A c \in Range(CATEGORIES) :
                  InBucket(p, c) => c = TableTier(p.pledge_amount_cents)
            /\ \A c \in Range(CATEGORIES) :
                  Cardinality({j \in DOMAIN categories[c] :
                                  categories[c][j].member_id = p.member_id}) <= 1
            /\ Unclassifiable(p) =>
                  /\ ~InSomeBucket(p)
                  /\ \A f \in FileNames : p.member_id \notin ListedIn(f)
            /\ (/\ Categorized
                /\ \E k \in 1..(i - 1) : Unclassifiable(patrons[k])
                /\ ~Unclassifiable(p) /\ LocalForm(p) /\ InWindow(p))
               => InSomeBucket(p)

\* C6 witness: a run has finished in which a patron with an unknown pledge
\* was skipped and the patron after it is in a bucket and in its file.
C6_Witness ==
    /\ pc = "done"
    /\ Len(patrons) >= 2
    /\ patrons[1].pledge_amount_cents = 700
    /\ InBucket(patrons[2], "one_month")
    /\ patrons[2].member_id \in ListedIn(CsvPath["one_month"])
    /\ patrons[1].member_id \notin ListedIn(JsonPath)

\* the file the direct call of write_csv wrote
WrittenCsv == {f \in CsvFiles : files[f].exists}

\* C7: write_csv writes one row per patron; a full timestamp is written as
\* its bare date, a bare date unchanged, and a text with a 'T' that does not
\* parse in its original form; the write completes.
C7_CsvTimestampNormalized ==
    pc = "done" =>
        /\ WrittenCsv # {}
        /\ \A f \in WrittenCsv :
              /\ files[f].header = fieldnames
              /\ Len(files[f].rows) = Len(patrons)
              /\ \A i \in DOMAIN patrons :
                    LET ts == patrons[i].last_payment_timestamp
                        out == files[f].rows[i].last_payment_timestamp
                    IN  /\ files[f].rows[i].member_id = patrons[i].member_id
                        /\ ts.form \in {"datetime", "datetime_z", "datetime_offset"}
                              => out = BareDate(ts)
                        /\ ts.form \in {"date", "text_T", "text", "empty"}
                              => out = ts

\* C7 witness: a written file holds a row for a "...Z" timestamp and a row
\* for a text with 'T' that does not parse.
C7_Witness ==
    /\ pc = "done"
    /\ WrittenCsv # {}
    /\ \E i \in DOMAIN patrons :
          patrons[i].last_payment_timestamp.form = "datetime_z"
    /\ \E i \in DOMAIN patrons :
          patrons[i].last_payment_timestamp.form = "text_T"

\* a list of records is in ascending order of lower-cased display name
NameSorted(rows) ==
    \A i \in 1..(Len(rows) - 1) :
        StrLeq(Lower(rows[i].displayed_name), Lower(rows[i + 1].displayed_name))

\* C8: every bucket, and the rows of every tabular file, are in ascending
\* order of the display name compared case-insensitively.
C8_SortedByLoweredName ==
    /\ \A c \in Range(CATEGORIES) : NameSorted(categories[c])
    /\ \A f \in CsvFiles : NameSorted(files[f].rows)

\* C8 witness: a file holds two rows whose order differs from the fetch
\* order and from the order of the raw code points ("al" before "Bo").
C8_Witness ==
    /\ pc = "done"
    /\ Len(patrons) >= 2
    /\ patrons[1].displayed_name = Name_Bo
    /\ patrons[2].displayed_name = Name_al
    /\ \E f \in CsvFiles :
          /\ Len(files[f].rows) = 2
          /\ files[f].rows[1].member_id = patrons[2].member_id
          /\ files[f].rows[2].member_id = patrons[1].member_id

CredentialKeys == {ENV_TOKEN, ENV_CAMPAIGN}
Resolved(k) == IF k = ENV_TOKEN THEN PATREON_ACCESS_TOKEN ELSE CAMPAIGN_ID

\* the text a configuration file gives a key: its value on a 'KEY=value'
\* line, nothing when the file is missing, unreadable or has no such line
FileText(k) ==
    IF /\ config_file.exists /\ config_file.readable
       /\ k \in DOMAIN config_file.values
       /\ config_file.values[k] # None_
    THEN config_file.values[k]
    ELSE ""

\* C9: each credential is the environment value when that is non-empty, else
\* the value the file gives it, else the empty string; load_config does not
\* raise.
C9_EnvironmentThenFileThenEmpty ==
    pc = "get_patrons" =>
        \A k \in CredentialKeys :
            Resolved(k) = IF Get(environ, k, "") # ""
                          THEN Get(environ, k, "")
                          ELSE FileText(k)

\* the members of page k, as the data model maps them
MembersOf(k) == Get(pages[k].body, "data", <<>>)
ActiveAt(k, j) == MembersOf(k)[j].attributes.patron_status = "active_patron"

\* the (page, position) pairs of the active members, in page order
RECURSIVE ActiveFrom(_)
ActiveFrom(k) ==
    IF k > Len(pages) THEN <<>>
    ELSE [i \in 1..Cardinality({j \in DOMAIN MembersOf(k) : ActiveAt(k, j)}) |->
            <<k, CHOOSE j \in DOMAIN MembersOf(k) :
                    /\ ActiveAt(k, j)
                    /\ Cardinality({h \in 1..j : ActiveAt(k, h)}) = i>>]
         \o ActiveFrom(k + 1)

\* the full names page k includes for user id uid
NamesFor(k, uid) ==
    LET inc == Get(pages[k].body, "included", <<>>)
    IN  {inc[i].attributes.full_name :
            i \in {h \in DOMAIN inc :
                      /\ inc[h].type = "user" /\ inc[h].id = uid
                      /\ "attributes" \in DOMAIN inc[h]}}

AllPagesSucceed == \A k \in DOMAIN pages : ~PageFailed(k)

\* C10: with both credentials set and every page succeeding, the pages are
\* requested one at a time in link order up to the page without a next
\* link, and the result is the active members of all pages in page order,
\* each with the name its own page includes for it ("Anonymous" otherwise),
\* the last charge date ('' when absent) and the pledge (0 when absent).
C10_FetchReturnsActiveMembers ==
    /\ \A i \in DOMAIN request_log : request_log[i] = i
    /\ (Fetched /\ ~Falsy(PATREON_ACCESS_TOKEN) /\ ~Falsy(CAMPAIGN_ID)
            /\ AllPagesSucceed) =>
          LET want == ActiveFrom(1)
          IN  /\ Len(request_log) = Len(pages)
              /\ Len(patrons) = Len(want)
              /\ \A i \in DOMAIN want :
                    LET m == MembersOf(want[i][1])[want[i][2]]
                        names == NamesFor(want[i][1], m.relationships.user.data.id)
                    IN  /\ patrons[i].member_id = m.id
                        /\ IF names = {}
                           THEN patrons[i].displayed_name = Anonymous
                           ELSE patrons[i].displayed_name \in names
                        /\ patrons[i].last_payment_timestamp
                              = IF "last_charge_date" \in DOMAIN m.attributes
                                THEN m.attributes.last_charge_date
                                ELSE EmptyStr
                        /\ patrons[i].pledge_amount_cents
                              = IF "currently_entitled_amount_cents"
                                       \in DOMAIN m.attributes
                                THEN m.attributes.currently_entitled_amount_cents
                                ELSE 0

\* C10 witness: two pages were fetched, an inactive member was left out, one
\* patron got its name from its page and one got "Anonymous".
C10_Witness ==
    /\ pc = "main_check"
    /\ AllPagesSucceed
    /\ request_log = <<1, 2>>
    /\ Len(patrons) >= 2
    /\ \E k \in DOMAIN pages : \E j \in DOMAIN MembersOf(k) : ~ActiveAt(k, j)
    /\ \E i \in DOMAIN patrons : patrons[i].displayed_name = Anonymous
    /\ \E i \in DOMAIN patrons : patrons[i].displayed_name = Name_Bo

====
